---- MODULE Spec2Model ----
(***************************************************************************)
(* repoman: a package repository index kept in one archive file.          *)
(* The model follows src/repoman.c: main() dispatches to verify_db,       *)
(* update_db or query_db; update_db loads the archive, prunes records     *)
(* whose file is gone, merges the scanned package files by version and    *)
(* rewrites the archive when dirty.                                        *)
(*                                                                         *)
(* A C string holding a path is a sequence of path segments, so that      *)
(* strrchr(path, '/') is "the last segment".  A text buffer is a sequence *)
(* of lines.  The package cache (pkghash) is its list of records.         *)
(***************************************************************************)
EXTENDS Integers, Sequences, FiniteSets, TLC

VARIABLES
    action,     \* main(): the selected repoman_action
    argv,       \* main(): positional arguments (argv + optind)
    clean,      \* main(): the -c flag
    files,      \* the package files on disk: path -> content
    archive,    \* the file at repopath
    pc,         \* position of the invocation
    dirty,      \* update_db: bool dirty
    cache,      \* the package cache (cache->list / db.pkgcache->list)
    db_pkgs,    \* verify_db / update_db: rest of the list being walked (pkg)
    pkgs,       \* update_db: rest of the scanned candidate paths (pkg)
    metadata,   \* update_db: the merge loop's alpm_pkg_meta_t *metadata slot
    wpkgs,      \* update_db: rest of the list being written (pkg)
    rc,         \* the exit status
    out,        \* what the invocation printed (stdout and stderr)
    run         \* number of the invocation on this repository

vars == <<action, argv, clean, files, archive, pc, dirty, cache, db_pkgs,
          pkgs, metadata, wpkgs, rc, out, run>>

(***************************************************************************)
(* Bounds of the model.                                                    *)
(***************************************************************************)
MaxVersion == 2
MaxRuns == 2

(***************************************************************************)
(* Decimal formatting (printf "%ld") and its reading back.                 *)
(***************************************************************************)
Digit(d) ==
    CASE d = 0 -> "0" [] d = 1 -> "1" [] d = 2 -> "2" [] d = 3 -> "3"
      [] d = 4 -> "4" [] d = 5 -> "5" [] d = 6 -> "6" [] d = 7 -> "7"
      [] d = 8 -> "8" [] d = 9 -> "9"

RECURSIVE Dec(_)
Dec(n) ==
    IF n < 0 THEN "-" \o Dec(0 - n)
    ELSE IF n < 10 THEN Digit(n)
    ELSE Dec(n \div 10) \o Digit(n % 10)

(***************************************************************************)
(* The universe the inputs are drawn from.                                 *)
(***************************************************************************)
Names == {"a", "b"}
Versions == {Dec(n) : n \in 1..MaxVersion}

PathX == <<"x.pkg.tar">>
PathY == <<"y.pkg.tar">>
PathSub == <<"sub", "x.pkg.tar">>
RootSub == <<"sub">>
Paths == {PathX, PathY, PathSub}

\* What a package file can hold: package a, in any version, in each of the
\* three files; the bystander package b, in its one version, in y.pkg.tar.
NamesAt(p) == IF p = PathY THEN Names ELSE {"a"}
VersionsOf(name) == IF name = "a" THEN Versions ELSE {Dec(1)}
Contents(p) ==
    UNION {{[name |-> n, version |-> v] : v \in VersionsOf(n)} :
              n \in NamesAt(p)}

FileSystems ==
    UNION {
        {f \in [D -> [name : Names, version : Versions]] :
            \A p \in D : f[p] \in Contents(p)} : D \in SUBSET Paths}

\* Roots in either order, and one vector that names a file twice.
ArgVectors ==
    {<<>>, <<PathX>>, <<PathY>>, <<RootSub>>, <<PathX, PathY>>,
     <<PathY, PathX>>, <<RootSub, PathX>>, <<PathX, RootSub>>,
     <<PathX, PathY, PathX>>}

NameVectors ==
    {<<>>, <<"a">>, <<"b">>, <<"a", "b">>, <<"b", "a">>, <<"a", "a">>}

(***************************************************************************)
(* External services: hashing, version comparison, metadata extraction.    *)
(***************************************************************************)
\* The digest of a file's content; a missing file has none (NULL).
alpm_compute_md5sum(fs, path) ==
    IF path \in DOMAIN fs
    THEN <<"md5:" \o fs[path].name \o "-" \o fs[path].version>>
    ELSE <<>>

alpm_compute_sha256sum(fs, path) ==
    IF path \in DOMAIN fs
    THEN <<"sha256:" \o fs[path].name \o "-" \o fs[path].version>>
    ELSE <<>>

VerNum(v) == CHOOSE n \in 0..(MaxVersion + 1) : Dec(n) = v

\* 1 when a is newer than b, -1 when older, 0 when equal.
alpm_pkg_vercmp(a, b) ==
    IF VerNum(a) > VerNum(b) THEN 1
    ELSE IF VerNum(a) < VerNum(b) THEN 0 - 1
    ELSE 0

\* The record fields other than identity, file and checksums.
Described(r) ==
    r @@ [desc |-> "desc of " \o r.name, url |-> "http://" \o r.name,
          packager |-> "packager", arch |-> "any",
          size |-> 12, isize |-> 34, builddate |-> 56,
          license |-> <<"GPL">>,
          depends |-> IF r.name = "a" THEN <<>> ELSE <<"a", "libc">>,
          conflicts |-> <<>>, provides |-> <<>>,
          optdepends |-> <<>>, makedepends |-> <<>>]

\* The metadata of the package file at path (the file exists).
alpm_pkg_load_metadata(fs, path) ==
    Described([filename |-> path, name |-> fs[path].name,
               version |-> fs[path].version,
               md5sum |-> alpm_compute_md5sum(fs, path)[1],
               sha256sum |-> alpm_compute_sha256sum(fs, path)[1]])

(***************************************************************************)
(* The package cache.                                                      *)
(***************************************************************************)
_alpm_pkghash_create == <<>>

\* <<>> is NULL, <<r>> the record cached under name.
_alpm_pkghash_find(c, name) ==
    SelectSeq(c, LAMBDA r : r.name = name)

_alpm_pkghash_remove(c, pkg) ==
    SelectSeq(c, LAMBDA r : r.name # pkg.name)

_alpm_pkghash_add(c, pkg) ==
    Append(SelectSeq(c, LAMBDA r : r.name # pkg.name), pkg)

(***************************************************************************)
(* The writer: src/repoman.c lines 39-153.                                 *)
(***************************************************************************)
\* faulty variant: the blank line that ends a list is not written
write_list_unterminated(buf, header, lst) ==
    buf \o <<"%" \o header \o "%">> \o lst

\* faulty variant: a list without values is left out, header and all
write_list_skips_empty(buf, header, lst) ==
    IF lst = <<>> THEN buf
    ELSE buf \o <<"%" \o header \o "%">> \o lst \o <<"">>

write_list(buf, header, lst) ==
    buf \o <<"%" \o header \o "%">> \o lst \o <<"">>

write_string(buf, header, str) ==
    buf \o <<"%" \o header \o "%", str, "">>

write_long(buf, header, val) ==
    buf \o <<"%" \o header \o "%", Dec(val), "">>

write_depends_file(pkg, buf) ==
    LET b1 == write_list(buf, "DEPENDS", pkg.depends)
        b2 == write_list(b1, "CONFLICTS", pkg.conflicts)
        b3 == write_list(b2, "PROVIDES", pkg.provides)
        b4 == write_list(b3, "OPTDEPENDS", pkg.optdepends)
    IN  write_list(b4, "MAKEDEPENDS", pkg.makedepends)

\* strrchr(pkg->filename, '/'): the part after the last slash.
BaseName(path) == path[Len(path)]

\* printf("%s") of a checksum; of NULL the C library prints "(null)".
SumText(sum) == IF sum = <<>> THEN "(null)" ELSE sum[1]

\* The thirteen fields of a desc blob, in the order they are written.
desc_fields(pkg, buf, filename, md5sum, sha256sum) ==
    LET b1 == write_string(buf, "FILENAME", filename)
        b2 == write_string(b1, "NAME", pkg.name)
        b3 == write_string(b2, "VERSION", pkg.version)
        b4 == write_string(b3, "DESC", pkg.desc)
        b5 == write_long(b4, "CSIZE", pkg.size)
        b6 == write_long(b5, "ISIZE", pkg.isize)
        b7 == write_string(b6, "MD5SUM", md5sum)
        b8 == write_string(b7, "SHA256SUM", sha256sum)
        b9 == write_string(b8, "URL", pkg.url)
        b10 == write_list(b9, "LICENSE", pkg.license)
        b11 == write_string(b10, "ARCH", pkg.arch)
        b12 == write_long(b11, "BUILDDATE", pkg.builddate)
    IN  write_string(b12, "PACKAGER", pkg.packager)

\* The file name is cut at the last slash and both checksums are computed
\* from the file, whatever the record stores.
write_desc_file(pkg, buf, fs) ==
    desc_fields(pkg, buf, BaseName(pkg.filename),
                SumText(alpm_compute_md5sum(fs, pkg.filename)),
                SumText(alpm_compute_sha256sum(fs, pkg.filename)))

\* One archive member: a regular file, mode 0644, holding the buffer.
archive_write_buffer(a, path, buf) ==
    [a EXCEPT !.entries = Append(@, [pathname |-> path, data |-> buf])]

\* archive_write_open_filename creates or truncates the file at repopath.
repo_write_new ==
    [exists |-> TRUE, closed |-> FALSE, entries |-> <<>>]

repo_write_pkg(a, pkg, fs) ==
    LET a1 == archive_write_buffer(a,
                  <<pkg.name \o "-" \o pkg.version, "desc">>,
                  write_desc_file(pkg, <<>>, fs))
    IN  archive_write_buffer(a1,
            <<pkg.name \o "-" \o pkg.version, "depends">>,
            write_depends_file(pkg, <<>>))

repo_write_close(a) == [a EXCEPT !.closed = TRUE]

NoArchive == [exists |-> FALSE, closed |-> FALSE, entries |-> <<>>]

(***************************************************************************)
(* The reader (alpm_db_populate): parses an archive into a package cache.  *)
(***************************************************************************)
RECURSIVE TakeValues(_)
TakeValues(lines) ==
    IF lines = <<>> \/ Head(lines) = "" THEN <<>>
    ELSE <<Head(lines)>> \o TakeValues(Tail(lines))

\* header line, value lines, blank line, repeated: header -> values
RECURSIVE ParseBlob(_)
ParseBlob(lines) ==
    IF lines = <<>> THEN [h \in {} |-> <<>>]
    ELSE LET vals == TakeValues(Tail(lines))
         IN  (Head(lines) :> vals)
                 @@ ParseBlob(SubSeq(lines, Len(vals) + 3, Len(lines)))

FieldList(f, header) ==
    IF ("%" \o header \o "%") \in DOMAIN f THEN f["%" \o header \o "%"] ELSE <<>>

FieldString(f, header) ==
    IF FieldList(f, header) = <<>> THEN "" ELSE FieldList(f, header)[1]

\* strtol on a decimal field: the number whose "%ld" text the field is.
LongOfText ==
    [str \in {Dec(n) : n \in 0..99} |-> CHOOSE n \in 0..99 : Dec(n) = str]

FieldLong(f, header) ==
    IF FieldString(f, header) \in DOMAIN LongOfText
    THEN LongOfText[FieldString(f, header)]
    ELSE 0

DescRecord(f) ==
    [filename |-> <<FieldString(f, "FILENAME")>>,
     name |-> FieldString(f, "NAME"),
     version |-> FieldString(f, "VERSION"),
     desc |-> FieldString(f, "DESC"),
     size |-> FieldLong(f, "CSIZE"),
     isize |-> FieldLong(f, "ISIZE"),
     md5sum |-> FieldString(f, "MD5SUM"),
     sha256sum |-> FieldString(f, "SHA256SUM"),
     url |-> FieldString(f, "URL"),
     license |-> FieldList(f, "LICENSE"),
     arch |-> FieldString(f, "ARCH"),
     builddate |-> FieldLong(f, "BUILDDATE"),
     packager |-> FieldString(f, "PACKAGER"),
     depends |-> <<>>, conflicts |-> <<>>, provides |-> <<>>,
     optdepends |-> <<>>, makedepends |-> <<>>]

WithDepends(r, f) ==
    [r EXCEPT !.depends = FieldList(f, "DEPENDS"),
              !.conflicts = FieldList(f, "CONFLICTS"),
              !.provides = FieldList(f, "PROVIDES"),
              !.optdepends = FieldList(f, "OPTDEPENDS"),
              !.makedepends = FieldList(f, "MAKEDEPENDS")]

RECURSIVE PopulateFrom(_, _)
PopulateFrom(entries, c) ==
    IF entries = <<>> THEN c
    ELSE LET e == Head(entries)
             f == ParseBlob(e.data)
         IN  PopulateFrom(Tail(entries),
                 IF e.pathname[2] = "desc"
                 THEN _alpm_pkghash_add(c, DescRecord(f))
                 ELSE [i \in DOMAIN c |->
                          IF c[i].name \o "-" \o c[i].version = e.pathname[1]
                          THEN WithDepends(c[i], f) ELSE c[i]])

alpm_db_populate(a) == PopulateFrom(a.entries, _alpm_pkghash_create)

(***************************************************************************)
(* The states an invocation can start in.                                  *)
(***************************************************************************)
\* The archive as an earlier write left it: every record with its stored
\* file name and checksums.
RECURSIVE StoredEntries(_)
StoredEntries(recs) ==
    IF recs = <<>> THEN <<>>
    ELSE LET r == Head(recs)
         IN  << [pathname |-> <<r.name \o "-" \o r.version, "desc">>,
                 data |-> desc_fields(r, <<>>, r.filename[1], r.md5sum,
                                      r.sha256sum)],
                [pathname |-> <<r.name \o "-" \o r.version, "depends">>,
                 data |-> write_depends_file(r, <<>>)] >>
             \o StoredEntries(Tail(recs))

ArchiveHolding(recs) ==
    [exists |-> TRUE, closed |-> TRUE, entries |-> StoredEntries(recs)]

BaseNamesOf(name) == {BaseName(p) : p \in {q \in Paths : name \in NamesAt(q)}}

\* The records an archive can hold under a name; with stale, also records
\* whose stored checksum is not the one of the package they describe.
StoredRecords(name, stale) ==
    {Described([filename |-> <<b>>, name |-> name, version |-> v,
                md5sum |-> IF sm THEN "md5:stale"
                           ELSE "md5:" \o name \o "-" \o v,
                sha256sum |-> IF sh THEN "sha256:stale"
                              ELSE "sha256:" \o name \o "-" \o v]) :
        b \in BaseNamesOf(name), v \in VersionsOf(name),
        sm \in (IF stale THEN BOOLEAN ELSE {FALSE}),
        sh \in (IF stale THEN BOOLEAN ELSE {FALSE})}

StoredIndexes(stale) ==
    {ra \o rb :
        ra \in {<<>>} \cup {<<r>> : r \in StoredRecords("a", stale)},
        rb \in {<<>>} \cup {<<r>> : r \in StoredRecords("b", stale)}}

Archives(stale) ==
    {NoArchive} \cup {ArchiveHolding(i) : i \in StoredIndexes(stale)}

InitLocals ==
    /\ pc = "start"
    /\ dirty = FALSE
    /\ cache = <<>>
    /\ db_pkgs = <<>>
    /\ pkgs = <<>>
    /\ metadata = <<>>
    /\ wpkgs = <<>>
    /\ rc = 1
    /\ out = <<>>
    /\ run = 1

InitUpdate ==
    /\ action = "UPDATE"
    /\ argv \in ArgVectors
    /\ clean \in BOOLEAN
    /\ files \in FileSystems
    /\ archive \in Archives(FALSE)
    /\ InitLocals

\* verify_db looks at the files the records name, which lie in the working
\* directory; query_db looks at no package file.
InitVerify ==
    /\ action = "VERIFY"
    /\ argv = <<>>
    /\ clean = FALSE
    /\ files \in {f \in FileSystems : PathSub \notin DOMAIN f}
    /\ archive \in Archives(TRUE)
    /\ InitLocals

InitQuery ==
    /\ action = "QUERY"
    /\ argv \in NameVectors
    /\ clean = FALSE
    /\ files \in {f \in FileSystems : DOMAIN f = {}}
    /\ archive \in Archives(FALSE)
    /\ InitLocals

Init == InitUpdate \/ InitVerify \/ InitQuery

(***************************************************************************)
(* find_packages and verify_pkg.                                           *)
(***************************************************************************)
Msg(kind, text) == [kind |-> kind, text |-> text]

IsUnder(root, p) ==
    Len(root) <= Len(p) /\ SubSeq(p, 1, Len(root)) = root

\* The segments of the universe that contain ".pkg.tar", in any case.
PkgTarSegments == {"x.pkg.tar", "y.pkg.tar", "Z.PKG.TAR.XZ", "d.pkg.tar"}

\* fnmatch("*.pkg.tar*", p->fts_path, FNM_CASEFOLD): the pattern is matched
\* against the whole path, and '*' matches '/' as well.
fnmatch_filter(path) == \E i \in DOMAIN path : path[i] \in PkgTarSegments

RECURSIVE SeqOfSet(_)
SeqOfSet(S) ==
    IF S = {} THEN <<>>
    ELSE LET x == CHOOSE y \in S : TRUE IN <<x>> \o SeqOfSet(S \ {x})

\* A file system entry that is no package: a regular file of some other
\* content, and a special file (a fifo, a socket, a device).
Text == [kind |-> "text"]
Fifo == [kind |-> "fifo"]

\* p->fts_info: the entries fs holds are files, every path above one of them
\* is a directory.
fts_info(fs, p) ==
    IF p \notin DOMAIN fs THEN "FTS_D"
    ELSE IF fs[p] = Fifo THEN "FTS_DEFAULT"
    ELSE "FTS_F"

\* The path of an entry and of every directory above it.
Prefixes(p) == {SubSeq(p, 1, n) : n \in 1..Len(p)}

\* What fts_read visits from one root: the root and everything below it.
fts_read(root, fs) ==
    {q \in UNION {Prefixes(p) : p \in DOMAIN fs} : IsUnder(root, q)}

\* fts walks the roots in argument order; FTS_F entries that match are kept.
RECURSIVE find_packages(_, _)
find_packages(paths, fs) ==
    IF paths = <<>> THEN <<>>
    ELSE SeqOfSet({p \in fts_read(Head(paths), fs) :
                      fts_info(fs, p) = "FTS_F" /\ fnmatch_filter(p)})
             \o find_packages(Tail(paths), fs)

\* faulty variant: the deep flag is ignored and the checksums are always compared
verify_pkg_always_deep(pkg, deep, fs) ==
    IF pkg.filename \notin DOMAIN fs
    THEN [rc |-> 1, msgs |-> <<Msg("couldn't find pkg", pkg.filename)>>]
    ELSE IF pkg.md5sum # alpm_compute_md5sum(fs, pkg.filename)[1]
    THEN [rc |-> 1, msgs |-> <<Msg("md5 sum is different", pkg.filename)>>]
    ELSE IF pkg.sha256sum # alpm_compute_sha256sum(fs, pkg.filename)[1]
    THEN [rc |-> 1,
          msgs |-> <<Msg("sha256 sum is different", pkg.filename)>>]
    ELSE [rc |-> 0, msgs |-> <<>>]

\* rc is the return value, msgs what warn()/warnx() printed.
verify_pkg(pkg, deep, fs) ==
    IF pkg.filename \notin DOMAIN fs
    THEN [rc |-> 1, msgs |-> <<Msg("couldn't find pkg", pkg.filename)>>]
    ELSE IF ~deep
    THEN [rc |-> 0, msgs |-> <<>>]
    ELSE IF pkg.md5sum # alpm_compute_md5sum(fs, pkg.filename)[1]
    THEN [rc |-> 1, msgs |-> <<Msg("md5 sum is different", pkg.filename)>>]
    ELSE IF pkg.sha256sum # alpm_compute_sha256sum(fs, pkg.filename)[1]
    THEN [rc |-> 1,
          msgs |-> <<Msg("sha256 sum is different", pkg.filename)>>]
    ELSE [rc |-> 0, msgs |-> <<>>]

unlink(fs, path) == [p \in DOMAIN fs \ {path} |-> fs[p]]

(***************************************************************************)
(* update_db: src/repoman.c lines 235-320.                                 *)
(***************************************************************************)
UpdateStart ==
    /\ pc = "start"
    /\ action = "UPDATE"
    /\ IF ~archive.exists
       THEN /\ out' = <<Msg("warning: repo doesn't exist, creating...", <<>>)>>
            /\ dirty' = TRUE
            /\ cache' = _alpm_pkghash_create
            /\ db_pkgs' = <<>>
            /\ pc' = "scan"
       ELSE /\ out' = <<Msg(":: Reading existing database...", <<>>)>>
            /\ dirty' = FALSE
            /\ cache' = alpm_db_populate(archive)
            /\ db_pkgs' = cache'
            /\ pc' = IF cache' = <<>> THEN "scan" ELSE "prune"
    /\ UNCHANGED <<action, argv, clean, files, archive, pkgs, metadata,
                   wpkgs, rc, run>>

\* One turn of the existence loop over the loaded list.
prune_missing(c, pkg, fs) ==
    IF verify_pkg(pkg, FALSE, fs).rc = 1
    THEN _alpm_pkghash_remove(c, pkg)
    ELSE c

UpdatePrune ==
    /\ pc = "prune"
    /\ LET pkg == Head(db_pkgs)
           v == verify_pkg(pkg, FALSE, files)
       IN  /\ cache' = prune_missing(cache, pkg, files)
           /\ IF v.rc = 1
              THEN /\ out' = out \o v.msgs
                               \o <<Msg("REMOVING", <<pkg.name, pkg.version>>)>>
                   /\ dirty' = TRUE
              ELSE UNCHANGED <<out, dirty>>
    /\ db_pkgs' = Tail(db_pkgs)
    /\ pc' = IF db_pkgs' = <<>> THEN "scan" ELSE "prune"
    /\ UNCHANGED <<action, argv, clean, files, archive, pkgs, metadata,
                   wpkgs, rc, run>>

UpdateScan ==
    /\ pc = "scan"
    /\ IF Len(argv) > 0
       THEN /\ out' = out \o <<Msg(":: Scanning for new packages...", <<>>)>>
            /\ pkgs' = find_packages(argv, files)
            /\ pc' = IF pkgs' = <<>> THEN "decide" ELSE "merge"
       ELSE /\ pc' = "decide"
            /\ UNCHANGED <<out, pkgs>>
    /\ UNCHANGED <<action, argv, clean, files, archive, dirty, cache,
                   db_pkgs, metadata, wpkgs, rc, run>>

\* int vercmp = old == NULL ? 0 : alpm_pkg_vercmp(...)
merge_vercmp(c, m) ==
    LET old == _alpm_pkghash_find(c, m.name)
    IN  IF old = <<>> THEN 0
        ELSE alpm_pkg_vercmp(m.version, old[1].version)

\* faulty variant: the test reads vercmp >= 0, so an equal candidate replaces too
merge_replaces_on_equal(c, m) ==
    _alpm_pkghash_find(c, m.name) = <<>> \/ merge_vercmp(c, m) >= 0

\* if (old == NULL || vercmp == 1)
merge_replaces(c, m) ==
    _alpm_pkghash_find(c, m.name) = <<>> \/ merge_vercmp(c, m) = 1

\* faulty variant: the candidate is linked into the list while the old record stays
merge_cache_keeps_old(c, m) ==
    IF merge_replaces(c, m) THEN Append(c, m) ELSE c

merge_cache(c, m) ==
    IF merge_replaces(c, m)
    THEN _alpm_pkghash_add(
             IF _alpm_pkghash_find(c, m.name) # <<>>
             THEN _alpm_pkghash_remove(c, m) ELSE c, m)
    ELSE c

\* faulty variant: a replacement does not set dirty
merge_dirty_unset(d, c, m) == d

merge_dirty(d, c, m) == IF merge_replaces(c, m) THEN TRUE ELSE d

\* faulty variant: the older candidate's file is unlinked whether clean is set or not
merge_files_ignoring_clean(fs, c, m, cl) ==
    LET old == _alpm_pkghash_find(c, m.name)
        f1 == IF merge_replaces(c, m) /\ old # <<>> /\ cl
              THEN unlink(fs, old[1].filename) ELSE fs
    IN  IF merge_vercmp(c, m) = 0 - 1
        THEN unlink(f1, m.filename) ELSE f1

\* faulty variant: a replaced record's file is unlinked whether clean is set or not
merge_files_unlinks_old(fs, c, m, cl) ==
    LET old == _alpm_pkghash_find(c, m.name)
        f1 == IF merge_replaces(c, m) /\ old # <<>>
              THEN unlink(fs, old[1].filename) ELSE fs
    IN  IF merge_vercmp(c, m) = 0 - 1 /\ cl
        THEN unlink(f1, m.filename) ELSE f1

\* the two unlink() calls of the merge loop
merge_files(fs, c, m, cl) ==
    LET old == _alpm_pkghash_find(c, m.name)
        f1 == IF merge_replaces(c, m) /\ old # <<>> /\ cl
              THEN unlink(fs, old[1].filename) ELSE fs
    IN  IF merge_vercmp(c, m) = 0 - 1 /\ cl
        THEN unlink(f1, m.filename) ELSE f1

\* faulty variant: every insertion is reported as an addition
merge_out_always_adding(c, m) ==
    IF merge_replaces(c, m)
    THEN <<Msg("ADDING", <<m.name, m.version>>)>>
    ELSE <<>>

merge_out(c, m) ==
    IF merge_replaces(c, m)
    THEN IF _alpm_pkghash_find(c, m.name) # <<>>
         THEN <<Msg("UPDATING", <<m.name, m.version>>)>>
         ELSE <<Msg("ADDING", <<m.name, m.version>>)>>
    ELSE <<>>

\* The body of the merge loop for the candidate record m.
MergeBody(m) ==
    /\ cache' = merge_cache(cache, m)
    /\ dirty' = merge_dirty(dirty, cache, m)
    /\ files' = merge_files(files, cache, m, clean)
    /\ out' = out \o merge_out(cache, m)
    /\ metadata' = <<m>>
    /\ pkgs' = Tail(pkgs)
    /\ pc' = IF pkgs' = <<>> THEN "decide" ELSE "merge"
    /\ UNCHANGED <<action, argv, clean, archive, db_pkgs, wpkgs, rc, run>>

UpdateMerge ==
    /\ pc = "merge"
    /\ Head(pkgs) \in DOMAIN files
    /\ MergeBody(alpm_pkg_load_metadata(files, Head(pkgs)))

\* The candidate's file was unlinked earlier in this loop: the load fails and
\* metadata is read uninitialized.  Either the slot still holds the previous
\* turn's pointer and the turn runs on that record again ...
UpdateMergeStale ==
    /\ pc = "merge"
    /\ Head(pkgs) \notin DOMAIN files
    /\ metadata # <<>>
    /\ MergeBody(metadata[1])

\* ... or the dereference faults and the process dies.
UpdateMergeFault ==
    /\ pc = "merge"
    /\ Head(pkgs) \notin DOMAIN files
    /\ pc' = "crashed"
    /\ UNCHANGED <<action, argv, clean, files, archive, dirty, cache,
                   db_pkgs, pkgs, metadata, wpkgs, rc, out, run>>

UpdateDecide ==
    /\ pc = "decide"
    /\ IF dirty
       THEN /\ out' = out \o <<Msg(":: Writing database to disk...", <<>>)>>
            /\ archive' = repo_write_new
            /\ wpkgs' = cache
            /\ pc' = IF cache = <<>> THEN "close" ELSE "write"
            /\ UNCHANGED rc
       ELSE /\ out' = out \o <<Msg("repo does not need updating", <<>>)>>
            /\ rc' = 0
            /\ pc' = "done"
            /\ UNCHANGED <<archive, wpkgs>>
    /\ UNCHANGED <<action, argv, clean, files, dirty, cache, db_pkgs, pkgs,
                   metadata, run>>

UpdateWritePkg ==
    /\ pc = "write"
    /\ archive' = repo_write_pkg(archive, Head(wpkgs), files)
    /\ wpkgs' = Tail(wpkgs)
    /\ pc' = IF wpkgs' = <<>> THEN "close" ELSE "write"
    /\ UNCHANGED <<action, argv, clean, files, dirty, cache, db_pkgs, pkgs,
                   metadata, rc, out, run>>

\* The record's file is gone: the checksums are NULL and printing them with
\* "%s" is undefined; besides "(null)" (UpdateWritePkg) the process may die.
UpdateWriteFault ==
    /\ pc = "write"
    /\ Head(wpkgs).filename \notin DOMAIN files
    /\ pc' = "crashed"
    /\ UNCHANGED <<action, argv, clean, files, archive, dirty, cache,
                   db_pkgs, pkgs, metadata, wpkgs, rc, out, run>>

UpdateWriteClose ==
    /\ pc = "close"
    /\ archive' = repo_write_close(archive)
    /\ out' = out \o <<Msg("repo updated successfully", <<>>)>>
    /\ rc' = 0
    /\ pc' = "done"
    /\ UNCHANGED <<action, argv, clean, files, dirty, cache, db_pkgs, pkgs,
                   metadata, wpkgs, run>>

\* The same command line is run again on the repository.
Rerun ==
    /\ pc = "done"
    /\ action = "UPDATE"
    /\ run < MaxRuns
    /\ run' = run + 1
    /\ pc' = "start"
    /\ dirty' = FALSE
    /\ cache' = <<>>
    /\ db_pkgs' = <<>>
    /\ pkgs' = <<>>
    /\ metadata' = <<>>
    /\ wpkgs' = <<>>
    /\ rc' = 1
    /\ out' = <<>>
    /\ UNCHANGED <<action, argv, clean, files, archive>>

(***************************************************************************)
(* verify_db: src/repoman.c lines 216-233.                                 *)
(***************************************************************************)
VerifyStart ==
    /\ pc = "start"
    /\ action = "VERIFY"
    /\ archive.exists
    /\ cache' = alpm_db_populate(archive)
    /\ db_pkgs' = cache'
    /\ rc' = 0
    /\ pc' = IF cache' = <<>> THEN "verify_end" ELSE "verify"
    /\ UNCHANGED <<action, argv, clean, files, archive, dirty, pkgs,
                   metadata, wpkgs, out, run>>

\* No stat() guards the load: with no archive, db is left as the stack held
\* it.  The walk over db.pkgcache->list faults, or finds an empty list.
VerifyNoArchive ==
    /\ pc = "start"
    /\ action = "VERIFY"
    /\ ~archive.exists
    /\ \/ /\ pc' = "crashed"
          /\ UNCHANGED rc
       \/ /\ pc' = "verify_end"
          /\ rc' = 0
    /\ UNCHANGED <<action, argv, clean, files, archive, dirty, cache,
                   db_pkgs, pkgs, metadata, wpkgs, out, run>>

\* faulty variant: rc = verify_pkg(...), the last record's verdict overwrites the rest
verify_assign(r, v) == v

\* rc |= verify_pkg(metadata, true)
verify_or(r, v) == IF r = 0 /\ v = 0 THEN 0 ELSE 1

VerifyPkg ==
    /\ pc = "verify"
    /\ LET v == verify_pkg(Head(db_pkgs), TRUE, files)
       IN  /\ rc' = verify_or(rc, v.rc)
           /\ out' = out \o v.msgs
    /\ db_pkgs' = Tail(db_pkgs)
    /\ pc' = IF db_pkgs' = <<>> THEN "verify_end" ELSE "verify"
    /\ UNCHANGED <<action, argv, clean, files, archive, dirty, cache, pkgs,
                   metadata, wpkgs, run>>

VerifyEnd ==
    /\ pc = "verify_end"
    /\ out' = IF rc = 0 THEN out \o <<Msg("repo okay!", <<>>)>> ELSE out
    /\ pc' = "done"
    /\ UNCHANGED <<action, argv, clean, files, archive, dirty, cache,
                   db_pkgs, pkgs, metadata, wpkgs, rc, run>>

(***************************************************************************)
(* query_db: src/repoman.c lines 322-363.                                  *)
(***************************************************************************)
print_pkg_metadata(pkg) ==
    Msg("pkg", pkg.filename \o <<pkg.name, pkg.version, pkg.desc, pkg.arch,
                                pkg.url, pkg.packager>>)

RECURSIVE print_all(_)
print_all(c) ==
    IF c = <<>> THEN <<>>
    ELSE <<print_pkg_metadata(Head(c))>> \o print_all(Tail(c))

QueryStart ==
    /\ pc = "start"
    /\ action = "QUERY"
    /\ IF ~archive.exists
       THEN /\ out' = <<Msg("repo doesn't exist", <<>>)>>
            /\ rc' = 1
            /\ pc' = "done"
            /\ UNCHANGED <<cache, pkgs>>
       ELSE /\ cache' = alpm_db_populate(archive)
            /\ IF Len(argv) > 0
               THEN /\ pkgs' = argv
                    /\ pc' = "query"
                    /\ UNCHANGED <<out, rc>>
               ELSE /\ out' = print_all(cache')
                    /\ rc' = 0
                    /\ pc' = "done"
                    /\ UNCHANGED pkgs
    /\ UNCHANGED <<action, argv, clean, files, archive, dirty, db_pkgs,
                   metadata, wpkgs, run>>

\* One turn of the loop over the requested names.
query_name(c, name) ==
    LET pkg == _alpm_pkghash_find(c, name)
    IN  IF pkg = <<>>
        THEN [rc |-> 1, msgs |-> <<Msg("pkg not found", <<>>)>>]
        ELSE [rc |-> 0, msgs |-> <<print_pkg_metadata(pkg[1])>>]

QueryName ==
    /\ pc = "query"
    /\ LET q == query_name(cache, Head(pkgs))
       IN  /\ out' = out \o q.msgs
           /\ IF q.rc = 1
              THEN /\ rc' = 1
                   /\ pc' = "done"
                   /\ UNCHANGED pkgs
              ELSE /\ pkgs' = Tail(pkgs)
                   /\ IF pkgs' = <<>>
                      THEN rc' = 0 /\ pc' = "done"
                      ELSE pc' = "query" /\ UNCHANGED rc
    /\ UNCHANGED <<action, argv, clean, files, archive, dirty, cache,
                   db_pkgs, metadata, wpkgs, run>>

Next ==
    \/ UpdateStart \/ UpdatePrune \/ UpdateScan
    \/ UpdateMerge \/ UpdateMergeStale \/ UpdateMergeFault
    \/ UpdateDecide \/ UpdateWritePkg \/ UpdateWriteFault \/ UpdateWriteClose
    \/ Rerun
    \/ VerifyStart \/ VerifyNoArchive \/ VerifyPkg \/ VerifyEnd
    \/ QueryStart \/ QueryName

Spec == Init /\ [][Next]_vars

(***************************************************************************)
(* Notions the properties are stated with.                                 *)
(***************************************************************************)
Records(c) == {c[i] : i \in DOMAIN c}

\* The archive holding the whole of cache c, finalized.
RECURSIVE WriteAll(_, _, _)
WriteAll(a, c, fs) ==
    IF c = <<>> THEN a ELSE WriteAll(repo_write_pkg(a, Head(c), fs), Tail(c), fs)

FullArchive(c, fs) == repo_write_close(WriteAll(repo_write_new, c, fs))

\* The candidate the last turn of the merge loop worked on.
Candidate == metadata[1]
InMergeTurn == pc = "merge" /\ pc' # "crashed"

(***************************************************************************)
(* C1: during UPDATE's rewrite the file at repopath is never partially     *)
(* written: every step that changes it puts the complete, finalized        *)
(* archive of the whole cache in place of the previous one.                *)
(***************************************************************************)
C1_AtomicReplace ==
    [][archive' = archive \/ archive' = FullArchive(cache, files)]_vars

(***************************************************************************)
(* C2: version precedence.  When the candidate's name already has a record *)
(* in the cache, the turn puts the candidate under that name iff           *)
(* alpm_pkg_vercmp says it is newer; when it is older or equal the cache   *)
(* is left as it was; when it is equal no file is deleted, clean or not.   *)
(***************************************************************************)
C2_VersionPrecedence ==
    [][InMergeTurn =>
        LET c == Candidate'
            old == _alpm_pkghash_find(cache, c.name)
        IN  old # <<>> =>
              LET cmp == alpm_pkg_vercmp(c.version, old[1].version)
              IN  /\ cmp = 1 =>
                        /\ _alpm_pkghash_find(cache', c.name) = <<c>>
                        /\ Records(cache') =
                              (Records(cache) \ {old[1]}) \cup {c}
                  /\ cmp # 1 => cache' = cache
                  /\ cmp = 0 => files' = files]_vars

\* a newer candidate has just replaced the record of its name
C2_Witness ==
    /\ pc \in {"merge", "decide"}
    /\ metadata # <<>>
    /\ out[Len(out)] = Msg("UPDATING", <<Candidate.name, Candidate.version>>)
    /\ _alpm_pkghash_find(cache, Candidate.name) = <<Candidate>>

(***************************************************************************)
(* C3: idempotence.  A second UPDATE with the same arguments and no change *)
(* to the files in between finds nothing to do: dirty is false when it     *)
(* decides, and it reports that no update is needed.                       *)
(***************************************************************************)
C3_Idempotent ==
    (action = "UPDATE" /\ run = 2 /\ pc = "decide") => ~dirty

(***************************************************************************)
(* C4: pruning.  After the existence pass over a loaded archive the cache  *)
(* holds exactly the loaded records whose file exists, whatever their      *)
(* checksums; each missing one was reported once as removed; dirty is set  *)
(* iff one was missing.                                                    *)
(***************************************************************************)
FileExists(r) == r.filename \in DOMAIN files

C4_Pruning ==
    (action = "UPDATE" /\ pc = "scan" /\ archive.exists) =>
        LET loaded == alpm_db_populate(archive)
            gone == SelectSeq(loaded, LAMBDA r : ~FileExists(r))
        IN  /\ cache = SelectSeq(loaded, FileExists)
            /\ SelectSeq(out, LAMBDA m : m.kind = "REMOVING")
                 = [i \in DOMAIN gone |->
                        Msg("REMOVING", <<gone[i].name, gone[i].version>>)]
            /\ dirty = (gone # <<>>)

\* two loaded records in a row were missing and both are gone
C4_Witness ==
    /\ action = "UPDATE" /\ pc = "scan" /\ archive.exists
    /\ Len(alpm_db_populate(archive)) = 2
    /\ cache = <<>>

(***************************************************************************)
(* C5: when UPDATE finishes, every record of the cache has a backing file  *)
(* on disk: clean never deletes the file of a record that stays.           *)
(***************************************************************************)
C5_FilesOfIndexExist ==
    (action = "UPDATE" /\ pc = "done") => \A r \in Records(cache) : FileExists(r)

(***************************************************************************)
(* C6: a candidate strictly older than the record of its name: its file is *)
(* deleted iff clean is set, and the turn changes neither the cache nor    *)
(* dirty.                                                                  *)
(***************************************************************************)
C6_OlderCandidate ==
    [][InMergeTurn =>
        LET c == Candidate'
            old == _alpm_pkghash_find(cache, c.name)
        IN  (old # <<>> /\ alpm_pkg_vercmp(c.version, old[1].version) = 0 - 1)
              => /\ cache' = cache
                 /\ dirty' = dirty
                 /\ clean => (c.filename \notin DOMAIN files'
                              /\ \A p \in DOMAIN files \ {c.filename} :
                                    p \in DOMAIN files' /\ files'[p] = files[p])
                 /\ ~clean => files' = files]_vars

\* an older candidate's file has just been deleted under clean
C6_Witness ==
    /\ pc \in {"merge", "decide"}
    /\ metadata # <<>>
    /\ clean
    /\ Candidate.filename \notin DOMAIN files
    /\ _alpm_pkghash_find(cache, Candidate.name) # <<>>
    /\ alpm_pkg_vercmp(Candidate.version,
           _alpm_pkghash_find(cache, Candidate.name)[1].version) = 0 - 1

(***************************************************************************)
(* C7: QUERY with names of which one is absent fails, says which name was  *)
(* missing (the first absent one) and prints no record at all; it succeeds *)
(* with one record per requested name only when every name is found.       *)
(***************************************************************************)
Printed == SelectSeq(out, LAMBDA m : m.kind = "pkg")

AbsentNames ==
    {i \in DOMAIN argv : _alpm_pkghash_find(cache, argv[i]) = <<>>}

C7_QueryNotFound ==
    (action = "QUERY" /\ pc = "done" /\ archive.exists /\ argv # <<>>) =>
        IF AbsentNames = {}
        THEN /\ rc = 0
             /\ Printed = [i \in DOMAIN argv |->
                   print_pkg_metadata(_alpm_pkghash_find(cache, argv[i])[1])]
        ELSE /\ rc = 1
             /\ Printed = <<>>
             /\ LET first == CHOOSE i \in AbsentNames :
                                 \A j \in AbsentNames : i <= j
                IN  \E k \in DOMAIN out :
                        out[k].kind = "pkg not found"
                        /\ out[k].text = <<argv[first]>>

(***************************************************************************)
(* C8: VERIFY checks every record of the loaded archive and goes on after  *)
(* a failing one; it reports each record whose file is missing or whose    *)
(* md5 or sha256 checksum differs from the file's, and it returns 0 and    *)
(* prints the one confirmation iff every record's file exists with both    *)
(* checksums matching.                                                     *)
(***************************************************************************)
Sound(r) ==
    /\ r.filename \in DOMAIN files
    /\ <<r.md5sum>> = alpm_compute_md5sum(files, r.filename)
    /\ <<r.sha256sum>> = alpm_compute_sha256sum(files, r.filename)

Complaints ==
    SelectSeq(out, LAMBDA m : m.kind \in {"couldn't find pkg",
                  "md5 sum is different", "sha256 sum is different"})

C8_VerifyAggregate ==
    (action = "VERIFY" /\ pc = "done" /\ archive.exists) =>
        LET loaded == alpm_db_populate(archive)
            bad == SelectSeq(loaded, LAMBDA r : ~Sound(r))
        IN  /\ rc = (IF bad = <<>> THEN 0 ELSE 1)
            /\ Len(Complaints) = Len(bad)
            /\ \A i \in DOMAIN bad :
                  /\ Complaints[i].text = bad[i].filename
                  /\ (Complaints[i].kind = "couldn't find pkg")
                        = (bad[i].filename \notin DOMAIN files)
            /\ (\E k \in DOMAIN out : out[k].kind = "repo okay!")
                  = (bad = <<>>)
            /\ Len(SelectSeq(out, LAMBDA m : m.kind = "repo okay!")) <= 1

\* the first record failed (only its sha256 differs), the second passed, and
\* the run still ended in failure with the one complaint
C8_Witness ==
    /\ action = "VERIFY" /\ pc = "done" /\ archive.exists
    /\ Len(cache) = 2
    /\ ~Sound(cache[1]) /\ Sound(cache[2])
    /\ FileExists(cache[1])
    /\ <<cache[1].md5sum>> = alpm_compute_md5sum(files, cache[1].filename)
    /\ rc = 1

(***************************************************************************)
(* C10: when UPDATE decides whether to rewrite, dirty is true iff the      *)
(* records of the cache differ from the records of the archive on disk (no *)
(* archive counting as different), and the archive is written anew exactly *)
(* then.                                                                   *)
(***************************************************************************)
DiffersFromDisk ==
    ~archive.exists \/ Records(cache) # Records(alpm_db_populate(archive))

C10_DirtyAccurate ==
    [][(action = "UPDATE" /\ pc = "decide") =>
          /\ dirty = DiffersFromDisk
          /\ (archive' # archive) = DiffersFromDisk]_vars

\* a record was pruned and a candidate added: dirty, and the contents differ
C10_Witness ==
    /\ action = "UPDATE" /\ pc = "decide" /\ archive.exists
    /\ dirty /\ DiffersFromDisk
    /\ \E k \in DOMAIN out : out[k].kind = "REMOVING"
    /\ \E k \in DOMAIN out : out[k].kind = "ADDING"

(***************************************************************************)
(* The writer on its own: any cache of up to two records, with list fields *)
(* of every shape, is written out by the rewrite step of update_db.        *)
(***************************************************************************)
\* The six list fields together: all empty, all single, mixed with repeats.
ListShapes ==
    { [license |-> <<>>, depends |-> <<>>, conflicts |-> <<>>,
       provides |-> <<>>, optdepends |-> <<>>, makedepends |-> <<>>],
      [license |-> <<"GPL">>, depends |-> <<"libc">>, conflicts |-> <<"c">>,
       provides |-> <<"p">>, optdepends |-> <<"o: why">>,
       makedepends |-> <<"make">>],
      [license |-> <<"GPL", "MIT">>, depends |-> <<"zlib", "libc", "zlib">>,
       conflicts |-> <<>>, provides |-> <<"p=1", "q">>,
       optdepends |-> <<>>, makedepends |-> <<"gcc", "make">>],
      [license |-> <<>>, depends |-> <<"libc">>, conflicts |-> <<"c", "d">>,
       provides |-> <<>>, optdepends |-> <<"o: why", "n">>,
       makedepends |-> <<>>] }

WriterRecords(name) ==
    {[filename |-> f, name |-> name, version |-> v,
      md5sum |-> IF st THEN "md5:stale" ELSE "md5:" \o name \o "-" \o v,
      sha256sum |-> IF st THEN "sha256:stale"
                    ELSE "sha256:" \o name \o "-" \o v,
      desc |-> "desc of " \o name, url |-> "http://" \o name,
      packager |-> "packager", arch |-> "any",
      size |-> 12, isize |-> 34, builddate |-> 56] @@ ls :
        f \in {PathX, PathSub}, v \in VersionsOf(name), st \in BOOLEAN,
        ls \in ListShapes}

WriterIndexes ==
    {ra \o rb :
        ra \in {<<>>} \cup {<<r>> : r \in WriterRecords("a")},
        rb \in {<<>>} \cup {<<r>> : r \in WriterRecords("b")}}

InitWriter ==
    /\ action = "UPDATE"
    /\ argv = <<>>
    /\ clean = FALSE
    /\ files \in {f \in FileSystems : PathY \notin DOMAIN f}
    /\ archive = NoArchive
    /\ pc = "decide"
    /\ dirty = TRUE
    /\ cache \in WriterIndexes
    /\ db_pkgs = <<>>
    /\ pkgs = <<>>
    /\ metadata = <<>>
    /\ wpkgs = <<>>
    /\ rc = 1
    /\ out = <<>>
    /\ run = 1

NextWriter ==
    \/ UpdateDecide \/ UpdateWritePkg \/ UpdateWriteFault \/ UpdateWriteClose

SpecWriter == InitWriter /\ [][NextWriter]_vars

(***************************************************************************)
(* C9: round trip.  As claimed: reading back the archive the writer wrote  *)
(* gives the same names, every record with field values identical to the   *)
(* original's, file name (with its directories) and stored checksums       *)
(* included.                                                               *)
(***************************************************************************)
C9_RoundTripIdentical ==
    (pc = "done" /\ dirty) =>
        Records(alpm_db_populate(archive)) = Records(cache)

(***************************************************************************)
(* C9 as amended: the records read back are the originals, in order, with  *)
(* every field identical except that filename is the original's base name  *)
(* and that md5sum and sha256sum are the checksums of the backing file's   *)
(* content at the time of writing (whatever was stored), when the file     *)
(* exists.                                                                 *)
(***************************************************************************)
ReadBack(r, b) ==
    /\ [b EXCEPT !.md5sum = "", !.sha256sum = ""]
         = [r EXCEPT !.filename = <<r.filename[Len(r.filename)]>>,
                     !.md5sum = "", !.sha256sum = ""]
    /\ r.filename \in DOMAIN files =>
         /\ <<b.md5sum>> = alpm_compute_md5sum(files, r.filename)
         /\ <<b.sha256sum>> = alpm_compute_sha256sum(files, r.filename)

C9_RoundTrip ==
    (pc = "done" /\ dirty) =>
        LET back == alpm_db_populate(archive)
        IN  /\ Len(back) = Len(cache)
            /\ \A i \in DOMAIN cache : ReadBack(cache[i], back[i])

\* two records written and read back: one in a subdirectory with a stale
\* stored checksum and empty lists, one with lists of several values
C9_Witness ==
    /\ pc = "done" /\ dirty /\ Len(cache) = 2
    /\ cache[1].filename = PathSub /\ PathSub \in DOMAIN files
    /\ cache[1].md5sum = "md5:stale"
    /\ cache[1].depends = <<>> /\ cache[1].license = <<>>
    /\ Len(cache[2].depends) = 3
    /\ alpm_db_populate(archive)[1].filename = <<"x.pkg.tar">>
    /\ alpm_db_populate(archive)[2].depends = cache[2].depends

(***************************************************************************)
(* C11: uniqueness.  In every state of UPDATE, after each prune turn and   *)
(* each merge turn, the cache holds at most one record per name; when a    *)
(* turn puts the candidate into the cache, looking its name up gives the   *)
(* candidate alone and the record it replaced is no longer enumerated.     *)
(***************************************************************************)
UniqueNames(c) == \A i, j \in DOMAIN c : c[i].name = c[j].name => i = j

C11_IndexUnique ==
    [][action = "UPDATE" =>
        /\ UniqueNames(cache)
        /\ UniqueNames(cache')
        /\ InMergeTurn =>
              LET c == Candidate'
                  old == _alpm_pkghash_find(cache, c.name)
              IN  (old = <<>> \/ alpm_pkg_vercmp(c.version, old[1].version) = 1)
                    => /\ _alpm_pkghash_find(cache', c.name) = <<c>>
                       /\ \A r \in Records(cache') : r.name = c.name => r = c
                       /\ old # <<>> => old[1] \notin Records(cache')]_vars

\* two candidates of one name in one run: the first was added, the second
\* replaced it, and the cache holds the second alone
C11_Witness ==
    /\ action = "UPDATE" /\ pc \in {"merge", "decide"}
    /\ metadata # <<>>
    /\ \E k \in DOMAIN out : out[k].kind = "ADDING" /\ out[k].text[1] = "a"
    /\ out[Len(out)] = Msg("UPDATING", <<"a", Candidate.version>>)
    /\ _alpm_pkghash_find(cache, "a") = <<Candidate>>

(***************************************************************************)
(* C12: VERIFY where no archive exists fails at once: it loads and checks  *)
(* no record, returns failure and never prints the confirmation.           *)
(***************************************************************************)
C12_VerifyNoArchive ==
    (action = "VERIFY" /\ ~archive.exists) =>
        /\ cache = <<>>
        /\ pc # "verify"
        /\ pc = "done" => rc # 0
        /\ \A k \in DOMAIN out : out[k].kind # "repo okay!"

DescHeaders ==
    <<"%FILENAME%", "%NAME%", "%VERSION%", "%DESC%", "%CSIZE%", "%ISIZE%",
      "%MD5SUM%", "%SHA256SUM%", "%URL%", "%LICENSE%", "%ARCH%",
      "%BUILDDATE%", "%PACKAGER%">>

DependsHeaders ==
    <<"%DEPENDS%", "%CONFLICTS%", "%PROVIDES%", "%OPTDEPENDS%",
      "%MAKEDEPENDS%">>

IsHeader(line) ==
    \/ \E i \in DOMAIN DescHeaders : DescHeaders[i] = line
    \/ \E i \in DOMAIN DependsHeaders : DependsHeaders[i] = line

ListBlock(header, lst) == <<header>> \o lst \o <<"">>

\* The lines of data from the header line h up to the next header line.
BlockAt(data, h) ==
    LET from == CHOOSE i \in DOMAIN data : data[i] = h
        upto == CHOOSE j \in from..Len(data) :
                    /\ \A k \in (from + 1)..j : ~IsHeader(data[k])
                    /\ j = Len(data) \/ IsHeader(data[j + 1])
    IN  SubSeq(data, from, upto)

LaidOut(r, desc, deps) ==
    /\ desc.pathname = <<r.name \o "-" \o r.version, "desc">>
    /\ deps.pathname = <<r.name \o "-" \o r.version, "depends">>
    /\ SelectSeq(desc.data, IsHeader) = DescHeaders
    /\ SelectSeq(deps.data, IsHeader) = DependsHeaders
    /\ BlockAt(desc.data, "%FILENAME%")
         = <<"%FILENAME%", r.filename[Len(r.filename)], "">>
    /\ BlockAt(desc.data, "%LICENSE%") = ListBlock("%LICENSE%", r.license)
    /\ deps.data = ListBlock("%DEPENDS%", r.depends)
                     \o ListBlock("%CONFLICTS%", r.conflicts)
                     \o ListBlock("%PROVIDES%", r.provides)
                     \o ListBlock("%OPTDEPENDS%", r.optdepends)
                     \o ListBlock("%MAKEDEPENDS%", r.makedepends)

C14_WriterLayout ==
    (dirty /\ pc \in {"write", "close", "done"}) =>
        LET n == Len(cache) - Len(wpkgs)
        IN  /\ Len(archive.entries) = 2 * n
            /\ \A i \in 1..n :
                  LaidOut(cache[i], archive.entries[2 * i - 1],
                          archive.entries[2 * i])

\* the archive is closed with two records in it: one in a subdirectory whose
\* lists are all empty, one with a license list of two values
C14_Witness ==
    /\ pc = "done" /\ dirty /\ Len(cache) = 2
    /\ Len(archive.entries) = 4 /\ archive.closed
    /\ cache[1].filename = PathSub
    /\ cache[1].license = <<>> /\ cache[1].makedepends = <<>>
    /\ cache[1].depends = <<>> /\ cache[1].provides = <<>>
    /\ Len(cache[2].license) = 2

(***************************************************************************)
(* The scanner on its own: find_packages over trees that hold package      *)
(* files, other regular files, a special file and directories, some of     *)
(* them named like a package.                                              *)
(***************************************************************************)
PathZ == <<"Z.PKG.TAR.XZ">>
PathReadme == <<"readme">>
PathDirReadme == <<"d.pkg.tar", "readme">>
PathDirY == <<"d.pkg.tar", "y.pkg.tar">>
PathSubFifo == <<"sub", "y.pkg.tar">>
RootDir == <<"d.pkg.tar">>

\* What each path of a scanned tree can hold.
ScanContents(p) ==
    IF p \in {PathReadme, PathDirReadme} THEN {Text}
    ELSE IF p = PathSubFifo THEN {Fifo}
    ELSE {[name |-> "a", version |-> Dec(1)]}

ScanPaths ==
    {PathX, PathZ, PathReadme, PathDirReadme, PathDirY, PathSub, PathSubFifo}

ScanTrees ==
    UNION {
        {f \in [D -> {Text, Fifo, [name |-> "a", version |-> Dec(1)]}] :
            \A p \in D : f[p] \in ScanContents(p)} : D \in SUBSET ScanPaths}

ScanRoots ==
    {<<>>, <<PathX>>, <<PathReadme>>, <<RootSub>>, <<RootDir>>,
     <<RootDir, PathZ>>, <<RootSub, RootDir>>, <<PathDirReadme, RootSub>>}

\* update_db has found no archive and is about to scan.
InitScan ==
    /\ action = "UPDATE"
    /\ argv \in ScanRoots
    /\ clean = FALSE
    /\ files \in ScanTrees
    /\ archive = NoArchive
    /\ pc = "scan"
    /\ dirty = TRUE
    /\ cache = _alpm_pkghash_create
    /\ db_pkgs = <<>>
    /\ pkgs = <<>>
    /\ metadata = <<>>
    /\ wpkgs = <<>>
    /\ rc = 1
    /\ out = <<Msg("warning: repo doesn't exist, creating...", <<>>)>>
    /\ run = 1

NextScan == UpdateScan

SpecScan == InitScan /\ [][NextScan]_vars

(***************************************************************************)
(* C15: scanner selection.  The scan returns exactly the regular files     *)
(* under the roots whose final path segment matches *.pkg.tar* in any      *)
(* case: no file whose own name does not match, whatever its directories   *)
(* or the root are called, no directory and no special file.               *)
(***************************************************************************)
C15_ScannerSelection ==
    (pc # "scan") =>
        {pkgs[i] : i \in DOMAIN pkgs}
            = {p \in DOMAIN files :
                  /\ \E i \in DOMAIN argv : IsUnder(argv[i], p)
                  /\ files[p] # Fifo
                  /\ p[Len(p)] \in PkgTarSegments}

(***************************************************************************)
(* C16: UPDATE where no archive exists starts from an empty cache with     *)
(* dirty set and always writes: the run is never cut short, and when it    *)
(* ends the archive is there and finalized, with no record when nothing    *)
(* was scanned, and with exactly one record per name among the candidates. *)
(***************************************************************************)
FirstRunWithoutArchive ==
    /\ action = "UPDATE" /\ run = 1
    /\ out # <<>>
    /\ out[1].kind = "warning: repo doesn't exist, creating..."

C16_NoArchiveWrites ==
    FirstRunWithoutArchive =>
        /\ dirty
        /\ pc # "crashed"
        /\ pc = "done" =>
              LET back == alpm_db_populate(archive)
              IN  /\ archive.exists /\ archive.closed
                  /\ Len(archive.entries) = 2 * Len(back)
                  /\ \A i, j \in DOMAIN back :
                        back[i].name = back[j].name => i = j
                  /\ \A i \in DOMAIN cache :
                        \E k \in DOMAIN argv : IsUnder(argv[k], cache[i].filename)
                  /\ {back[i].name : i \in DOMAIN back}
                        = {cache[i].name : i \in DOMAIN cache}
                  /\ \A p \in DOMAIN files :
                        (\E k \in DOMAIN argv : IsUnder(argv[k], p))
                          => \E i \in DOMAIN back : back[i].name = files[p].name

(***************************************************************************)
(* C17: order independence of the merge.  Whatever the order of the        *)
(* candidates, the version the cache ends with under each name is the      *)
(* highest among the record that survived pruning and all candidates of    *)
(* the name: every turn of the loop completes and leaves unchanged, for    *)
(* each name, the highest version among the cache and the candidates still *)
(* to come; a candidate equal in version to the record of its name leaves  *)
(* that record, the first one met, in place.                               *)
(***************************************************************************)
\* The versions under name n in the cache and in the candidates to come.
VersionsInPlay(n) ==
    {VerNum(cache[i].version) : i \in {j \in DOMAIN cache : cache[j].name = n}}
        \cup {VerNum(files[pkgs[k]].version) :
                 k \in {j \in DOMAIN pkgs : /\ pkgs[j] \in DOMAIN files
                                            /\ files[pkgs[j]].name = n}}

Highest(n) ==
    IF VersionsInPlay(n) = {} THEN 0
    ELSE CHOOSE v \in VersionsInPlay(n) : \A w \in VersionsInPlay(n) : w <= v

C17_OrderIndependent ==
    [][(action = "UPDATE" /\ pc = "merge") =>
          /\ pc' # "crashed"
          /\ \A n \in Names : Highest(n)' = Highest(n)
          /\ LET old == _alpm_pkghash_find(cache, Candidate'.name)
             IN  (old # <<>> /\ old[1].version = Candidate'.version)
                    => cache' = cache]_vars

(***************************************************************************)
(* C18: checksums are refreshed on rewrite.  When UPDATE has rewritten the *)
(* archive, the MD5SUM and SHA256SUM of every record whose file exists are *)
(* those of the file's content now, whatever the record stored, so that    *)
(* verify_pkg, run on the archive as it stands with the files as they      *)
(* stand, finds no record whose file exists to differ in a checksum; an    *)
(* UPDATE that ends without rewriting leaves the records, stored checksums *)
(* included, as they were loaded.                                          *)
(***************************************************************************)
WrittenRefreshed ==
    LET back == alpm_db_populate(archive)
    IN  /\ Len(back) = Len(cache)
        /\ \A i \in DOMAIN cache :
              cache[i].filename \in DOMAIN files =>
                /\ <<back[i].md5sum>>
                     = alpm_compute_md5sum(files, cache[i].filename)
                /\ <<back[i].sha256sum>>
                     = alpm_compute_sha256sum(files, cache[i].filename)

VerifyFindsNoMismatch ==
    \A r \in Records(alpm_db_populate(archive)) :
        r.filename \in DOMAIN files => verify_pkg(r, TRUE, files).rc = 0

C18_ChecksumsRefreshed ==
    (action = "UPDATE" /\ pc = "done") =>
        IF dirty
        THEN WrittenRefreshed /\ VerifyFindsNoMismatch
        ELSE alpm_db_populate(archive) = cache

(***************************************************************************)
(* C19: without clean, UPDATE deletes nothing.  No step of a run with      *)
(* clean unset changes the package files on disk, whether it prunes a      *)
(* record, replaces one, keeps one or passes over a candidate; the archive *)
(* is the only thing such a run may change.                                *)
(***************************************************************************)
C19_NoCleanNoDelete ==
    [][(action = "UPDATE" /\ ~clean) => files' = files]_vars

\* without clean a record was pruned, another replaced by a newer candidate,
\* and the replaced record's file is still on disk
C19_Witness ==
    /\ action = "UPDATE" /\ ~clean /\ pc = "decide" /\ run = 1
    /\ \E k \in DOMAIN out : out[k].kind = "REMOVING"
    /\ \E k \in DOMAIN out : out[k].kind = "UPDATING"
    /\ \E r \in Records(alpm_db_populate(archive)) :
          /\ r \notin Records(cache)
          /\ r.filename \in DOMAIN files

====
